---- MODULE Spec2Model ----
(***************************************************************************)
(* Trip planner (App + Calendar + remote trip store client).               *)
(*                                                                         *)
(* The model follows the React component App (src/unnamed/part_000), the   *)
(* Calendar component (src/components/Calendar.tsx) and the HTTP client    *)
(* (src/utils/api.ts).  Every event handler is one action; an async        *)
(* handler is cut at each await into the part that issues the request,     *)
(* the remote store answering it, and the part that resumes with the       *)
(* answer.  useEffect callbacks run in the step that changes their         *)
(* dependencies.                                                           *)
(*                                                                         *)
(* Dates are day ordinals of the year 2025 counted from 2025-06-01 = 1;    *)
(* every Date the program handles is a local start-of-day, so isBefore,    *)
(* isAfter and isSameDay are <, > and = on ordinals.                       *)
(***************************************************************************)
EXTENDS Integers, Sequences, FiniteSets, TLC

\* ------------------------------------------------------------ bounds
\* requests to the remote store (list, save, delete) that may be in flight together
MaxRequests == 2
\* save requests the user issues in one run (the store assigns a fresh id to each)
MaxSaves == 1
\* clicks remembered by the history variable clickTrace
MaxTrace == 3
\* the last month the calendar is rendered for: 14 is 2026-02, whose grid has four
\* rows (2025-08 has six)
LastMonth == 14
\* persisted trips handed to a rendered calendar
MaxTrips == 2

\* ------------------------------------------------------------ inputs
\* months of 2025 the calendar may display
Months == {6, 7}
\* days the user clicks in the calendar specification: 06-05, 06-10, 06-20, 07-05
ClickDays == {5, 10, 20, 35}
\* days the user clicks in the specification of the whole app: 06-05, 06-10
FewDays == {5, 10}
\* values of new Date() (the current day) seen by the calendar
NowDays == {1}
\* last-modified markers the remote store assigns
Markers == {"m"}
\* messages of status:"error" answers of the remote store
AppMessages == {"quota exceeded"}
\* what the remote store may hold when the app starts
InitialRemotes == {<<>>}

\* a Date | null that is null
Null == 0
\* no trip id (isDeleting === null)
NoId == ""

\* ------------------------------------------------------------ calendar
\* Months are counted from 2025-01 = 1, so 6 is 2025-06 and 14 is 2026-02.
YearOf(m) == 2025 + ((m - 1) \div 12)

MonthNo(m) == ((m - 1) % 12) + 1

IsLeap(y) == (y % 4 = 0 /\ y % 100 # 0) \/ y % 400 = 0

DaysIn(m) ==
  IF MonthNo(m) = 2 THEN (IF IsLeap(YearOf(m)) THEN 29 ELSE 28)
  ELSE IF MonthNo(m) \in {4, 6, 9, 11} THEN 30 ELSE 31

\* days from 2025-06-01 to the first day of each month 5..LastMonth + 2
DaysBeforeTable ==
  LET F[m \in 5..(LastMonth + 2)] ==
        IF m = 5 THEN 0 - 31 ELSE F[m - 1] + DaysIn(m - 1)
  IN  F

DaysBefore(m) == DaysBeforeTable[m]

\* getMonth/getFullYear of a date, as a month index
MonthOf(date) ==
  IF date <= 0 THEN 5
  ELSE CHOOSE m \in 6..(LastMonth + 1) : DaysBefore(m) < date /\ date <= DaysBefore(m + 1)

DayOfMonth(date) == date - DaysBefore(MonthOf(date))

\* isSameMonth(date, a date of the month)
IsSameMonth(date, month) == DaysBefore(month) < date /\ date <= DaysBefore(month + 1)

\* getDay of a date: 0 is Sunday; 2025-06-01 is a Sunday
Weekday(date) == (date - 1) % 7

\* format(date, 'yyyy-MM-dd'): the wire form of a date
FormatDate(date) ==
  [y |-> YearOf(MonthOf(date)), m |-> MonthNo(MonthOf(date)), d |-> DayOfMonth(date)]

\* parseDateSafe: year, month, day -> local Date
parseDateSafe(s) == DaysBefore((s.y - 2025) * 12 + s.m) + s.d

\* ------------------------------------------------------------ api.ts
API_URL == "https://script.google.com/macros/s/AKfycbw/exec"

MsgFailedToFetch == "Failed to fetch"
MsgGetActiveSheet == "Cannot read properties of null (reading 'getActiveSheet')"
MsgSheetNotFound == "backend error: spreadsheet not found (bind the script or set the sheet id)"
MsgConnectionFailed == "connection failed: check API_URL or the network"
MsgBadFormat == "server response format error"
MsgSaveFailed == "save failed"
MsgNotPropagated == "save reported success but sync failed: redeploy the script"
MsgSaved == "trip added"
MsgSynced == "synced latest trips"
MsgDeleted == "trip deleted"
MsgDeleteFailed == "delete failed"
MsgDayInfo == "day n of the trip"

Pending == [kind |-> "pending", trips |-> <<>>, id |-> "", message |-> ""]

Answer(kind, list, id, message) ==
  [kind |-> kind, trips |-> list, id |-> id, message |-> message]

FailureKinds == {"transport", "unparsable", "apperror"}

\* the failures a request can meet instead of the remote store's answer: fetch()
\* rejecting, a body JSON.parse rejects, a status:"error" body
Failures ==
  {Answer("transport", <<>>, "", MsgFailedToFetch), Answer("unparsable", <<>>, "", "")}
  \cup {Answer("apperror", <<>>, "", m) : m \in AppMessages}

\* error.toString() of an Error with message msg
ErrorToString(msg) == "Error: " \o msg

\* String.includes, for the needles handleApiError looks for
Includes(str, needle) ==
  \E pre \in {"", "Error: ", "TypeError: "} : str = pre \o needle

\* handleApiError: the message of the error it throws for a caught error
handleApiError(kind, msg) ==
  LET s == IF kind = "transport" THEN "TypeError: " \o msg ELSE ErrorToString(msg)
  IN  IF Includes(s, MsgGetActiveSheet) THEN MsgSheetNotFound
      ELSE IF Includes(s, MsgFailedToFetch) THEN MsgConnectionFailed
      ELSE msg

\* saveTripToCloud and deleteTripFromCloud: the message of the error thrown for a
\* failed answer
ThrownMessage(resp) ==
  handleApiError(resp.kind,
                 IF resp.kind = "transport" THEN MsgFailedToFetch
                 ELSE IF resp.kind = "unparsable" THEN MsgBadFormat
                 ELSE resp.message)

wireToTrip(t) ==
  [id |-> t.id, startDate |-> parseDateSafe(t.startDate),
   endDate |-> parseDateSafe(t.endDate), lastUpdated |-> t.lastUpdated]

\* getAllTripsFromCloud: the list it resolves to; every error is caught and
\* answered with the empty list
getAllTripsFromCloud(resp) ==
  IF resp.kind = "ok"
  THEN [i \in 1..Len(resp.trips) |-> wireToTrip(resp.trips[i])]
  ELSE <<>>

\* JSON.stringify(data.map(t => t.id + t.lastUpdated))
Fingerprint(data) ==
  <<"[">> \o [i \in 1..Len(data) |-> data[i].id \o data[i].lastUpdated] \o <<"]">>

\* lastServerHash starts as "", which no JSON.stringify of an array equals
NoHash == <<>>

\* ------------------------------------------------------------ Calendar.tsx
EmptyDraft == [startDate |-> Null, endDate |-> Null]

IsEmpty(range) == range.startDate = Null /\ range.endDate = Null
IsPartial(range) == range.startDate # Null /\ range.endDate = Null
IsComplete(range) == range.startDate # Null /\ range.endDate # Null

\* SelectDate without the isBefore branch: an earlier second click ends the range
SelectDate_noBefore(range, date) ==
  IF range.startDate = Null /\ range.endDate = Null
  THEN [startDate |-> date, endDate |-> Null]
  ELSE IF range.startDate # Null /\ range.endDate = Null
  THEN IF date = range.startDate THEN [startDate |-> Null, endDate |-> Null]
       ELSE [startDate |-> range.startDate, endDate |-> date]
  ELSE [startDate |-> date, endDate |-> Null]

\* SelectDate whose second click always restarts the range
SelectDate_restart(range, date) ==
  IF range.startDate = Null /\ range.endDate = Null
  THEN [startDate |-> date, endDate |-> Null]
  ELSE IF range.startDate # Null /\ range.endDate = Null
  THEN IF date = range.startDate THEN [startDate |-> Null, endDate |-> Null]
       ELSE [startDate |-> date, endDate |-> Null]
  ELSE [startDate |-> date, endDate |-> Null]

\* SelectDate without the isSameDay branch: the start clicked again ends the range
SelectDate_noSameDay(range, date) ==
  IF range.startDate = Null /\ range.endDate = Null
  THEN [startDate |-> date, endDate |-> Null]
  ELSE IF range.startDate # Null /\ range.endDate = Null
  THEN IF date < range.startDate THEN [startDate |-> date, endDate |-> Null]
       ELSE [startDate |-> range.startDate, endDate |-> date]
  ELSE [startDate |-> date, endDate |-> Null]

\* SelectDate that extends a complete range by a later click
SelectDate_extend(range, date) ==
  IF range.startDate = Null /\ range.endDate = Null
  THEN [startDate |-> date, endDate |-> Null]
  ELSE IF range.startDate # Null /\ range.endDate = Null
  THEN IF date < range.startDate THEN [startDate |-> date, endDate |-> Null]
       ELSE IF date = range.startDate THEN [startDate |-> Null, endDate |-> Null]
       ELSE [startDate |-> range.startDate, endDate |-> date]
  ELSE IF date > range.endDate THEN [startDate |-> range.startDate, endDate |-> date]
  ELSE [startDate |-> date, endDate |-> Null]

\* SelectDate that swaps an earlier second click into a complete range
SelectDate_swap(range, date) ==
  IF range.startDate = Null /\ range.endDate = Null
  THEN [startDate |-> date, endDate |-> Null]
  ELSE IF range.startDate # Null /\ range.endDate = Null
  THEN IF date < range.startDate THEN [startDate |-> date, endDate |-> range.startDate]
       ELSE IF date = range.startDate THEN [startDate |-> Null, endDate |-> Null]
       ELSE [startDate |-> range.startDate, endDate |-> date]
  ELSE [startDate |-> date, endDate |-> Null]

\* handleDateClick, edit logic: the draft passed to onDraftChange
SelectDate(range, date) ==
  IF range.startDate = Null /\ range.endDate = Null
  THEN [startDate |-> date, endDate |-> Null]
  ELSE IF range.startDate # Null /\ range.endDate = Null
  THEN IF date < range.startDate THEN [startDate |-> date, endDate |-> Null]
       ELSE IF date = range.startDate THEN [startDate |-> Null, endDate |-> Null]
       ELSE [startDate |-> range.startDate, endDate |-> date]
  ELSE IF range.startDate # Null /\ range.endDate # Null
  THEN [startDate |-> date, endDate |-> Null]
  ELSE range

\* trips.find(t => isWithinInterval(date, {start, end})): index or 0
FindTrip(list, date) ==
  LET hits == {i \in 1..Len(list) : list[i].startDate <= date /\ date <= list[i].endDate}
  IN  IF hits = {} THEN 0 ELSE CHOOSE i \in hits : \A j \in hits : i <= j

\* the auto-navigation effect, deps [draftRange.startDate, trips.length]: the
\* month currentMonth is set to, now being the value of new Date()
AutoNavigate(oldRange, newRange, oldTrips, newTrips, month, now) ==
  IF oldRange.startDate = newRange.startDate /\ Len(oldTrips) = Len(newTrips)
  THEN month
  ELSE IF newRange.startDate # Null THEN MonthOf(newRange.startDate)
  ELSE IF Len(newTrips) > 0
  THEN LET future == {i \in 1..Len(newTrips) : newTrips[i].startDate > now}
           pick == IF future = {} THEN Len(newTrips)
                   ELSE CHOOSE i \in future : \A j \in future : i <= j
       IN  MonthOf(newTrips[pick].startDate)
  ELSE month

\* calendarDays that ends the grid on the last day of the month
calendarDays_noEndOfWeek(month) ==
  LET monthStart == DaysBefore(month) + 1
      monthEnd == DaysBefore(month + 1)
      startDate == monthStart - Weekday(monthStart)
  IN  [i \in 1..(monthEnd - startDate + 1) |-> startDate + (i - 1)]

\* calendarDays: the days of the grid of the displayed month, from the Sunday on or
\* before its first day to the Saturday on or after its last
calendarDays(month) ==
  LET monthStart == DaysBefore(month) + 1
      monthEnd == DaysBefore(month + 1)
      startDate == monthStart - Weekday(monthStart)
      endDate == monthEnd + (6 - Weekday(monthEnd))
  IN  [i \in 1..(endDate - startDate + 1) |-> startDate + (i - 1)]

isDraftStart(range, day) == IF range.startDate # Null THEN day = range.startDate ELSE FALSE

isDraftEnd(range, day) == IF range.endDate # Null THEN day = range.endDate ELSE FALSE

\* isInDraft: strictly between the two dates of a complete draft
isInDraft(range, day) ==
  IF range.startDate = Null \/ range.endDate = Null THEN FALSE
  ELSE day > range.startDate /\ day < range.endDate

\* getTripForDate: the first trip whose interval holds the day, as an index or 0
getTripForDate(list, day) == FindTrip(list, day)

isTripStart(list, day) ==
  IF getTripForDate(list, day) # 0 THEN day = list[getTripForDate(list, day)].startDate
  ELSE FALSE

isTripEnd(list, day) ==
  IF getTripForDate(list, day) # 0 THEN day = list[getTripForDate(list, day)].endDate
  ELSE FALSE

isTripRange(list, day) ==
  getTripForDate(list, day) # 0 /\ ~isTripStart(list, day) /\ ~isTripEnd(list, day)

\* isEnd that lets a draft start suppress the end of a trip
isEnd_suppressedByStart(range, list, day) ==
  isDraftEnd(range, day) \/ (range.startDate = Null /\ isTripEnd(list, day))

\* the final flags of a day
isStart(range, list, day) ==
  isDraftStart(range, day) \/ (range.startDate = Null /\ isTripStart(list, day))

isEnd(range, list, day) ==
  isDraftEnd(range, day) \/ (range.endDate = Null /\ isTripEnd(list, day))

isRange(range, list, day) ==
  isInDraft(range, day) \/ (~isInDraft(range, day) /\ isTripRange(list, day))

isSavedTrip(range, list, day) ==
  /\ getTripForDate(list, day) # 0
  /\ ~isDraftStart(range, day)
  /\ ~isDraftEnd(range, day)
  /\ ~isInDraft(range, day)

\* one cell of calendarDays.map
DayCell(month, range, list, day) ==
  [date |-> day,
   isCurrentMonth |-> IsSameMonth(day, month),
   isStart |-> isStart(range, list, day),
   isEnd |-> isEnd(range, list, day),
   isRange |-> isRange(range, list, day),
   isSavedTrip |-> isSavedTrip(range, list, day)]

\* the grid Calendar renders
RenderGrid(month, range, list) ==
  LET days == calendarDays(month)
  IN  [i \in 1..Len(days) |-> DayCell(month, range, list, days[i])]

\* ------------------------------------------------------------ App
\* PollingEffect that returns no cleanup: the interval is never cleared
PollingEffect_noCleanup(oldEdit, newEdit, timers) ==
  IF oldEdit = newEdit THEN timers
  ELSE IF newEdit \/ API_URL = "" THEN timers ELSE timers + 1

\* the polling effect, deps [isEditMode]: the cleanup of the last run, then the run
PollingEffect(oldEdit, newEdit, timers) ==
  IF oldEdit = newEdit THEN timers
  ELSE LET cleaned == IF oldEdit \/ API_URL = "" THEN timers ELSE timers - 1
       IN  IF newEdit \/ API_URL = "" THEN cleaned ELSE cleaned + 1

RemoveAt(s, i) == [j \in 1..(Len(s) - 1) |-> IF j < i THEN s[j] ELSE s[j + 1]]

VARIABLES
  trips,          \* useState<Trip[]>: the locally held trip list
  tripsSet,       \* whether the step just taken called setTrips (stored a new array)
  draftRange,     \* useState<DateRange>
  isEditMode, isSaving, isDeleting, isLoading,
  lastServerHash, \* useRef: fingerprint of the last fetch applied
  toastShown,     \* the showToast call of the step just taken, NoToast if none
  currentMonth,   \* Calendar's useState: the displayed month
  mounted,        \* whether App is mounted
  pollTimers,     \* live setInterval timers of the polling effect
  fetches,        \* fetchTrips calls awaiting getAllTripsFromCloud, in issue order
  save,           \* the handleSave call in progress
  del,            \* the handleDelete call in progress
  remote,         \* the remote store's trip list (wire form)
  savedCount,     \* save requests issued so far
  clickTrace,     \* history: the clicks made on the draft since it was last EMPTY
  cells,          \* the day cells of Calendar's last render, <<>> before it
  today           \* the day new Date() gives, one day for the whole session

vars == <<trips, tripsSet, draftRange, isEditMode, isSaving, isDeleting, isLoading,
          lastServerHash, toastShown, currentMonth, mounted, pollTimers, fetches,
          save, del, remote, savedCount, clickTrace, cells, today>>

NoToast == [show |-> FALSE, msg |-> "", type |-> "success"]

\* no payload: the wire form of no date
NoWireDate == [y |-> 0, m |-> 0, d |-> 0]

IdleSave ==
  [pc |-> "idle", startDate |-> NoWireDate, endDate |-> NoWireDate, newId |-> "",
   resp |-> Pending]
IdleDel == [pc |-> "idle", id |-> NoId, resp |-> Pending]

\* overtaken is history: a fetch issued later has been applied to the trip list
FetchCall(silent, origin) ==
  [silent |-> silent, origin |-> origin, resp |-> Pending, overtaken |-> FALSE]

\* the state after the first render and its effects: the initial fetchTrips() is
\* awaiting its answer and the polling effect has set its interval
Init ==
  /\ trips = <<>>
  /\ tripsSet = FALSE
  /\ draftRange = EmptyDraft
  /\ isEditMode = FALSE
  /\ isSaving = FALSE
  /\ isDeleting = NoId
  /\ isLoading = (API_URL # "")
  /\ lastServerHash = NoHash
  /\ toastShown = NoToast
  /\ today \in NowDays
  /\ currentMonth = MonthOf(today)
  /\ mounted = TRUE
  /\ pollTimers = PollingEffect(TRUE, FALSE, 0)
  /\ fetches = IF API_URL # "" THEN <<FetchCall(FALSE, "initial")>> ELSE <<>>
  /\ save = IdleSave
  /\ del = IdleDel
  /\ remote \in InitialRemotes
  /\ savedCount = 0
  /\ clickTrace = <<>>
  /\ cells = <<>>

\* the requests awaiting their answer or the handler's resumption
Outstanding ==
  Len(fetches) + (IF save.pc = "idle" THEN 0 ELSE 1) + (IF del.pc = "idle" THEN 0 ELSE 1)

\* showToast(msg, type): setToast({show: true, msg, type}).  The timer that hides
\* the toast after 3 s is presentation and is not modelled.
showToast(msg, type) == toastShown' = [show |-> TRUE, msg |-> msg, type |-> type]

\* a step that shows no toast
noToast == toastShown' = NoToast

\* setTrips(data)
setTrips(data) == trips' = data /\ tripsSet' = TRUE

\* a step that leaves the trip list alone
keepTrips == trips' = trips /\ tripsSet' = FALSE

\* the effects that follow a render with a new draft, trip list and mode
RunEffects ==
  /\ currentMonth' = AutoNavigate(draftRange, draftRange', trips, trips', currentMonth,
                                  today)
  /\ pollTimers' = PollingEffect(isEditMode, isEditMode', pollTimers)

\* a day button that is never disabled
DayDisabled_never(date, month) == FALSE

\* disabled={!isCurrentMonth} of a day button: the padding days cannot be clicked
DayDisabled(date, month) == MonthOf(date) # month

\* Calendar.handleDateClick(date) of an enabled day button, with App.handleDayClick
handleDateClick(date) ==
  /\ mounted
  /\ UNCHANGED <<cells, today>>
  /\ ~DayDisabled(date, currentMonth)
  /\ IF ~isEditMode
     THEN /\ IF FindTrip(trips, date) # 0
             THEN showToast(MsgDayInfo, "info")
             ELSE noToast
          /\ UNCHANGED draftRange
     ELSE /\ draftRange' = SelectDate(draftRange, date)
          /\ noToast
  /\ keepTrips
  /\ UNCHANGED <<isEditMode, isSaving, isDeleting, isLoading, lastServerHash, mounted,
                 fetches, save, del, remote, savedCount>>
  /\ RunEffects

\* history: the click joins the clicks made since the draft was last EMPTY
RecordClick(date) ==
  clickTrace' = IF ~isEditMode THEN clickTrace
                ELSE IF IsEmpty(draftRange) THEN <<date>>
                ELSE IF Len(clickTrace) \in 1..(MaxTrace - 1) THEN Append(clickTrace, date)
                ELSE <<>>

\* the X button and the cancel button: setIsEditMode(false)
cancelEdit ==
  /\ mounted
  /\ UNCHANGED <<cells, today>>
  /\ isEditMode
  /\ isEditMode' = FALSE
  /\ noToast
  /\ keepTrips
  /\ UNCHANGED <<draftRange, isSaving, isDeleting, isLoading, lastServerHash, mounted,
                 fetches, save, del, remote, savedCount, clickTrace>>
  /\ RunEffects

\* the new-trip button: setIsEditMode(true); setDraftRange({null, null})
newTrip ==
  /\ mounted
  /\ UNCHANGED <<cells, today>>
  /\ ~isEditMode
  /\ isEditMode' = TRUE
  /\ draftRange' = EmptyDraft
  /\ clickTrace' = <<>>
  /\ noToast
  /\ keepTrips
  /\ UNCHANGED <<isSaving, isDeleting, isLoading, lastServerHash, mounted, fetches,
                 save, del, remote, savedCount>>
  /\ RunEffects

\* handleResetDraft that drops the end date only
handleResetDraft_keepStart ==
  /\ mounted
  /\ UNCHANGED <<cells, today>>
  /\ isEditMode
  /\ draftRange.startDate # Null
  /\ draftRange' = [draftRange EXCEPT !.endDate = Null]
  /\ clickTrace' = <<>>
  /\ noToast
  /\ keepTrips
  /\ UNCHANGED <<isEditMode, isSaving, isDeleting, isLoading, lastServerHash, mounted,
                 fetches, save, del, remote, savedCount>>
  /\ RunEffects

\* handleResetDraft, behind a button disabled while the draft has no start
handleResetDraft ==
  /\ mounted
  /\ UNCHANGED <<cells, today>>
  /\ isEditMode
  /\ draftRange.startDate # Null
  /\ draftRange' = EmptyDraft
  /\ clickTrace' = <<>>
  /\ noToast
  /\ keepTrips
  /\ UNCHANGED <<isEditMode, isSaving, isDeleting, isLoading, lastServerHash, mounted,
                 fetches, save, del, remote, savedCount>>
  /\ RunEffects

\* prevMonth, nextMonth: addMonths(currentMonth, -1 | 1), within the months modelled
stepMonth(by) ==
  /\ mounted
  /\ UNCHANGED <<cells, today>>
  /\ currentMonth + by \in Months
  /\ currentMonth' = currentMonth + by
  /\ noToast
  /\ keepTrips
  /\ UNCHANGED <<draftRange, isEditMode, isSaving, isDeleting, isLoading,
                 lastServerHash, mounted, pollTimers, fetches, save, del, remote,
                 savedCount, clickTrace>>

prevMonth == stepMonth(-1)

nextMonth == stepMonth(1)

\* goToToday: setCurrentMonth(new Date())
goToToday ==
  /\ mounted
  /\ UNCHANGED <<cells, today>>
  /\ currentMonth' = MonthOf(today)
  /\ noToast
  /\ keepTrips
  /\ UNCHANGED <<draftRange, isEditMode, isSaving, isDeleting, isLoading,
                 lastServerHash, mounted, pollTimers, fetches, save, del, remote,
                 savedCount, clickTrace>>

\* the setInterval callback of the polling effect: fetchTrips(true) up to its await
pollTick ==
  /\ mounted
  /\ UNCHANGED <<cells, today>>
  /\ pollTimers > 0
  /\ API_URL # ""
  /\ Outstanding < MaxRequests
  /\ fetches' = Append(fetches, FetchCall(TRUE, "poll"))
  /\ noToast
  /\ keepTrips
  /\ UNCHANGED <<draftRange, isEditMode, isSaving, isDeleting, isLoading,
                 lastServerHash, currentMonth, mounted, pollTimers, save, del, remote,
                 savedCount, clickTrace>>

\* the answer a resuming handler reads: the one the remote store gave, or, the
\* store not having answered, one of the failures
Received(resp) == IF resp = Pending THEN Failures ELSE {resp}

\* the remote store answers a list request with its trips
answerFetch(i) ==
  /\ mounted
  /\ UNCHANGED <<cells, today>>
  /\ i \in 1..Len(fetches)
  /\ fetches[i].resp = Pending
  /\ fetches' = [fetches EXCEPT ![i].resp = Answer("ok", remote, "", "")]
  /\ noToast
  /\ keepTrips
  /\ UNCHANGED <<draftRange, isEditMode, isSaving, isDeleting, isLoading,
                 lastServerHash, currentMonth, mounted, pollTimers, save, del, remote,
                 savedCount, clickTrace>>

\* whether fetchTrips replaces the trip list by the data fetched
FetchApplies(currentHash, lastHash) == currentHash # lastHash

\* fetchTrips after its await, getAllTripsFromCloud having met resp: compare
\* fingerprints, replace the list, finally
fetchTripsResumeWith(i, resp) ==
  /\ mounted
  /\ UNCHANGED <<cells, today>>
  /\ i \in 1..Len(fetches)
  /\ LET silent == fetches[i].silent
         data == getAllTripsFromCloud(resp)
         currentHash == Fingerprint(data)
     IN  /\ IF FetchApplies(currentHash, lastServerHash)
            THEN /\ setTrips(data)
                 /\ lastServerHash' = currentHash
                 /\ IF silent /\ Len(data) > 0
                    THEN showToast(MsgSynced, "info")
                    ELSE noToast
            ELSE /\ keepTrips
                 /\ noToast
                 /\ UNCHANGED lastServerHash
         /\ isLoading' = IF silent THEN isLoading ELSE FALSE
  /\ fetches' = RemoveAt([j \in 1..Len(fetches) |->
                            IF j < i /\ tripsSet'
                            THEN [fetches[j] EXCEPT !.overtaken = TRUE]
                            ELSE fetches[j]], i)
  /\ UNCHANGED <<draftRange, isEditMode, isSaving, isDeleting, mounted, save, del,
                 remote, savedCount, clickTrace>>
  /\ RunEffects

fetchTripsResume(i) ==
  /\ i \in 1..Len(fetches)
  /\ \E resp \in Received(fetches[i].resp) : fetchTripsResumeWith(i, resp)

\* Incomplete that looks at the start date only
Incomplete_startOnly(range) == range.startDate = Null

\* !draftRange.startDate || !draftRange.endDate, the test of handleSave and of the
\* save button
Incomplete(range) == range.startDate = Null \/ range.endDate = Null

\* a save button that stays enabled while a save is running
SaveDisabled_whileSaving(range, saving) == Incomplete(range)

\* the save button is disabled unless the draft is complete and no save is running
SaveDisabled(range, saving) == Incomplete(range) \/ saving

\* the save button is on the screen (edit mode) and enabled
CanSave == isEditMode /\ ~SaveDisabled(draftRange, isSaving)

\* handleSave up to its first await: saveTripToCloud(draftRange, null) posts the range
handleSave ==
  /\ mounted
  /\ UNCHANGED <<cells, today>>
  /\ CanSave
  /\ ~Incomplete(draftRange)
  /\ savedCount < MaxSaves
  /\ Outstanding < MaxRequests
  /\ API_URL # ""
  /\ isSaving' = TRUE
  /\ savedCount' = savedCount + 1
  /\ save' = [pc |-> "saving", startDate |-> FormatDate(draftRange.startDate),
              endDate |-> FormatDate(draftRange.endDate), newId |-> "", resp |-> Pending]
  /\ noToast
  /\ keepTrips
  /\ UNCHANGED <<draftRange, isEditMode, isDeleting, isLoading, lastServerHash,
                 currentMonth, mounted, pollTimers, fetches, del, remote, clickTrace>>

\* the id the remote store assigns to the n-th save
NewId(n) == "T" \o ToString(n)

\* the remote store answers the save request: it appends the trip and returns its
\* id, or returns an id without storing the trip
answerSave ==
  /\ mounted
  /\ UNCHANGED <<cells, today>>
  /\ save.pc = "saving"
  /\ save.resp = Pending
  /\ \/ \E mark \in Markers :
          /\ remote' = Append(remote, [id |-> NewId(savedCount), startDate |-> save.startDate,
                                       endDate |-> save.endDate, lastUpdated |-> mark])
          /\ save' = [save EXCEPT !.resp = Answer("ok", <<>>, NewId(savedCount), "")]
     \/ /\ save' = [save EXCEPT !.resp = Answer("ok", <<>>, NewId(savedCount), "")]
        /\ UNCHANGED remote
  /\ noToast
  /\ keepTrips
  /\ UNCHANGED <<draftRange, isEditMode, isSaving, isDeleting, isLoading,
                 lastServerHash, currentMonth, mounted, pollTimers, fetches, del,
                 savedCount, clickTrace>>

\* e.message || '儲存失敗'
SaveErrorMessage(msg) == IF msg = "" THEN MsgSaveFailed ELSE msg

\* handleSave after saveTripToCloud: the id, then getAllTripsFromCloud(); or catch
\* and finally
handleSaveResumeWith(resp) ==
  /\ mounted
  /\ UNCHANGED <<cells, today>>
  /\ save.pc = "saving"
  /\ IF resp.kind = "ok"
       THEN /\ save' = [save EXCEPT !.pc = "verifying", !.newId = resp.id,
                                    !.resp = Pending]
            /\ noToast
            /\ UNCHANGED isSaving
       ELSE /\ showToast(SaveErrorMessage(ThrownMessage(resp)), "error")
            /\ isSaving' = FALSE
            /\ save' = IdleSave
  /\ keepTrips
  /\ UNCHANGED <<draftRange, isEditMode, isDeleting, isLoading, lastServerHash,
                 currentMonth, mounted, pollTimers, fetches, del, remote, savedCount,
                 clickTrace>>

handleSaveResume == \E resp \in Received(save.resp) : handleSaveResumeWith(resp)

\* the remote store answers the list request that verifies the save
answerVerify ==
  /\ mounted
  /\ UNCHANGED <<cells, today>>
  /\ save.pc = "verifying"
  /\ save.resp = Pending
  /\ save' = [save EXCEPT !.resp = Answer("ok", remote, "", "")]
  /\ noToast
  /\ keepTrips
  /\ UNCHANGED <<draftRange, isEditMode, isSaving, isDeleting, isLoading,
                 lastServerHash, currentMonth, mounted, pollTimers, fetches, del,
                 remote, savedCount, clickTrace>>

\* IsSaved that trusts the id the save returned
IsSaved_trusting(latestTrips, newId) == newId # ""

\* latestTrips.some(t => t.id === newId)
IsSaved(latestTrips, newId) == \E i \in 1..Len(latestTrips) : latestTrips[i].id = newId

\* handleSaveVerified that does not leave edit mode after a verified save
handleSaveVerified_staysInEdit ==
  /\ mounted
  /\ UNCHANGED <<cells, today>>
  /\ save.pc = "verifying"
  /\ \E resp \in Received(save.resp) :
     LET latestTrips == getAllTripsFromCloud(resp)
     IN  IF ~IsSaved(latestTrips, save.newId)
         THEN /\ showToast(SaveErrorMessage(MsgNotPropagated), "error")
              /\ keepTrips
              /\ UNCHANGED <<draftRange, isEditMode, clickTrace>>
         ELSE /\ setTrips(latestTrips)
              /\ showToast(MsgSaved, "success")
              /\ draftRange' = EmptyDraft
              /\ UNCHANGED isEditMode
              /\ clickTrace' = <<>>
  /\ isSaving' = FALSE
  /\ save' = IdleSave
  /\ UNCHANGED <<isDeleting, isLoading, lastServerHash, mounted, fetches, del, remote,
                 savedCount>>
  /\ RunEffects

\* handleSave after the verifying getAllTripsFromCloud(): throw the consistency
\* error, or replace the list, clear the draft and leave edit mode; finally
handleSaveVerified ==
  /\ mounted
  /\ UNCHANGED <<cells, today>>
  /\ save.pc = "verifying"
  /\ \E resp \in Received(save.resp) :
     LET latestTrips == getAllTripsFromCloud(resp)
     IN  IF ~IsSaved(latestTrips, save.newId)
         THEN /\ showToast(SaveErrorMessage(MsgNotPropagated), "error")
              /\ keepTrips
              /\ UNCHANGED <<draftRange, isEditMode, clickTrace>>
         ELSE /\ setTrips(latestTrips)
              /\ showToast(MsgSaved, "success")
              /\ draftRange' = EmptyDraft
              /\ isEditMode' = FALSE
              /\ clickTrace' = <<>>
  /\ isSaving' = FALSE
  /\ save' = IdleSave
  /\ UNCHANGED <<isDeleting, isLoading, lastServerHash, mounted, fetches, del, remote,
                 savedCount>>
  /\ RunEffects

\* handleDelete(id) up to its await, the user having confirmed; the delete button
\* is rendered in view mode and disabled while a delete is running
handleDelete(id) ==
  /\ mounted
  /\ UNCHANGED <<cells, today>>
  /\ ~isEditMode
  /\ isDeleting = NoId
  /\ \E i \in 1..Len(trips) : trips[i].id = id
  /\ Outstanding < MaxRequests
  /\ API_URL # ""
  /\ isDeleting' = id
  /\ del' = [pc |-> "deleting", id |-> id, resp |-> Pending]
  /\ noToast
  /\ keepTrips
  /\ UNCHANGED <<draftRange, isEditMode, isSaving, isLoading, lastServerHash,
                 currentMonth, mounted, pollTimers, fetches, save, remote, savedCount,
                 clickTrace>>

\* the remote store without the trip id
Without(list, id) ==
  LET keep(s) == IF s.id = id THEN <<>> ELSE <<s>>
      F[n \in 0..Len(list)] == IF n = 0 THEN <<>> ELSE F[n - 1] \o keep(list[n])
  IN  F[Len(list)]

\* the remote store answers the delete request: it removes the trip
answerDelete ==
  /\ mounted
  /\ UNCHANGED <<cells, today>>
  /\ del.pc = "deleting"
  /\ del.resp = Pending
  /\ remote' = Without(remote, del.id)
  /\ del' = [del EXCEPT !.resp = Answer("ok", <<>>, "", "")]
  /\ noToast
  /\ keepTrips
  /\ UNCHANGED <<draftRange, isEditMode, isSaving, isDeleting, isLoading,
                 lastServerHash, currentMonth, mounted, pollTimers, fetches, save,
                 savedCount, clickTrace>>

\* handleDelete after deleteTripFromCloud: toast and fetchTrips(true), or catch;
\* finally
handleDeleteResumeWith(resp) ==
  /\ mounted
  /\ UNCHANGED <<cells, today>>
  /\ del.pc = "deleting"
  /\ IF resp.kind = "ok"
       THEN /\ showToast(MsgDeleted, "info")
            /\ fetches' = IF API_URL # "" THEN Append(fetches, FetchCall(TRUE, "refresh"))
                          ELSE fetches
       ELSE /\ showToast(MsgDeleteFailed, "error")
            /\ UNCHANGED fetches
  /\ isDeleting' = NoId
  /\ del' = IdleDel
  /\ keepTrips
  /\ UNCHANGED <<draftRange, isEditMode, isSaving, isLoading, lastServerHash,
                 currentMonth, mounted, pollTimers, save, remote, savedCount,
                 clickTrace>>

handleDeleteResume == \E resp \in Received(del.resp) : handleDeleteResumeWith(resp)

\* App is torn down: the cleanup of the polling effect runs and React discards the
\* component's state.  setState on an unmounted component does nothing, so the
\* handlers still awaiting an answer are not followed further.
unmount ==
  /\ mounted
  /\ UNCHANGED <<cells, today>>
  /\ mounted' = FALSE
  /\ pollTimers' = IF isEditMode \/ API_URL = "" THEN pollTimers ELSE pollTimers - 1
  /\ trips' = <<>>
  /\ tripsSet' = FALSE
  /\ draftRange' = EmptyDraft
  /\ isEditMode' = FALSE
  /\ isSaving' = FALSE
  /\ isDeleting' = NoId
  /\ isLoading' = FALSE
  /\ lastServerHash' = NoHash
  /\ toastShown' = NoToast
  /\ fetches' = <<>>
  /\ save' = IdleSave
  /\ del' = IdleDel
  /\ clickTrace' = <<>>
  /\ UNCHANGED <<currentMonth, remote, savedCount>>

\* the whole app, the user clicking the days FewDays
Next ==
  \/ \E date \in FewDays : handleDateClick(date) /\ UNCHANGED clickTrace
  \/ cancelEdit
  \/ newTrip
  \/ handleResetDraft
  \/ pollTick
  \/ \E i \in 1..MaxRequests : answerFetch(i)
  \/ \E i \in 1..MaxRequests : fetchTripsResume(i)
  \/ handleSave
  \/ answerSave
  \/ handleSaveResume
  \/ answerVerify
  \/ handleSaveVerified
  \/ \E i \in 1..Len(trips) : handleDelete(trips[i].id)
  \/ answerDelete
  \/ handleDeleteResume
  \/ unmount

Spec == Init /\ [][Next]_vars

\* the whole app with the scheduling the browser gives it: a live interval timer
\* fires again and again, a request is answered or fails, and the handler awaiting
\* it resumes
SpecSync ==
  /\ Init
  /\ [][Next]_vars
  /\ WF_vars(pollTick)
  /\ \A i \in 1..MaxRequests : WF_vars(answerFetch(i)) /\ WF_vars(fetchTripsResume(i))
  /\ WF_vars(handleSaveResume)
  /\ WF_vars(handleSaveVerified)
  /\ WF_vars(handleDeleteResume)

\* the calendar and the save of its draft, the user clicking the days ClickDays;
\* no list fetch is answered and nothing is deleted
NextCalendar ==
  \/ \E date \in ClickDays : handleDateClick(date) /\ RecordClick(date)
  \/ cancelEdit
  \/ newTrip
  \/ handleResetDraft
  \/ prevMonth
  \/ nextMonth
  \/ goToToday
  \/ handleSave
  \/ answerSave
  \/ handleSaveResume
  \/ answerVerify
  \/ handleSaveVerified

SpecCalendar == Init /\ [][NextCalendar]_vars

\* days on which the trips and the draft of a rendered calendar begin and end:
\* 06-05, 06-10, 06-20
RenderDays == {5, 10, 20}

RenderRanges ==
  {r \in [startDate : RenderDays, endDate : RenderDays] : r.startDate <= r.endDate}

\* the trip lists handed to Calendar: up to MaxTrips trips, overlapping or not
RenderTripLists ==
  UNION {{[i \in 1..n |-> [id |-> NewId(i), startDate |-> f[i].startDate,
                            endDate |-> f[i].endDate, lastUpdated |-> "m"]] :
            f \in [1..n -> RenderRanges]} : n \in 0..MaxTrips}

\* the drafts handed to Calendar: EMPTY, PARTIAL and COMPLETE
RenderDrafts ==
  {EmptyDraft} \cup {[startDate |-> a, endDate |-> Null] : a \in RenderDays}
  \cup RenderRanges

\* App at rest in edit mode, showing some month with some trips and some draft
InitRender ==
  /\ trips \in RenderTripLists
  /\ tripsSet = FALSE
  /\ draftRange \in RenderDrafts
  /\ isEditMode = TRUE
  /\ isSaving = FALSE
  /\ isDeleting = NoId
  /\ isLoading = FALSE
  /\ lastServerHash = Fingerprint(trips)
  /\ toastShown = NoToast
  /\ currentMonth \in 6..LastMonth
  /\ mounted = TRUE
  /\ pollTimers = PollingEffect(TRUE, isEditMode, 0)
  /\ fetches = <<>>
  /\ save = IdleSave
  /\ del = IdleDel
  /\ remote = <<>>
  /\ savedCount = 0
  /\ clickTrace = <<>>
  /\ cells = <<>>
  /\ today \in NowDays

\* Calendar renders: calendarDays.map over the displayed month
render ==
  /\ mounted
  /\ cells' = RenderGrid(currentMonth, draftRange, trips)
  /\ UNCHANGED <<trips, tripsSet, draftRange, isEditMode, isSaving, isDeleting, isLoading,
                 lastServerHash, toastShown, currentMonth, mounted, pollTimers, fetches,
                 save, del, remote, savedCount, clickTrace, today>>

NextRender == render

\* the rendering of the calendar, for the months, trips and drafts above
SpecRender == InitRender /\ [][NextRender]_vars

\* the days on which the trips of the remote store start and end when the app
\* is opened, and the days on which it is opened
NavDays == {5, 20, 35, 50}
NavNows == {15, 40}

NavRanges == {r \in [startDate : NavDays, endDate : NavDays] : r.startDate <= r.endDate}

\* the remote store when the app is opened: one to MaxTrips trips in the order
\* they were saved, which need not be the order of their dates
NavRemotes ==
  UNION {{[i \in 1..n |-> [id |-> NewId(i), startDate |-> FormatDate(f[i].startDate),
                            endDate |-> FormatDate(f[i].endDate), lastUpdated |-> "m"]] :
            f \in [1..n -> NavRanges]} : n \in 1..MaxTrips}

\* the app opened on one of NavNows over a store that holds trips already
InitNavigate ==
  /\ trips = <<>>
  /\ tripsSet = FALSE
  /\ draftRange = EmptyDraft
  /\ isEditMode = FALSE
  /\ isSaving = FALSE
  /\ isDeleting = NoId
  /\ isLoading = (API_URL # "")
  /\ lastServerHash = NoHash
  /\ toastShown = NoToast
  /\ today \in NavNows
  /\ currentMonth = MonthOf(today)
  /\ mounted = TRUE
  /\ pollTimers = PollingEffect(TRUE, FALSE, 0)
  /\ fetches = IF API_URL # "" THEN <<FetchCall(FALSE, "initial")>> ELSE <<>>
  /\ save = IdleSave
  /\ del = IdleDel
  /\ remote \in NavRemotes
  /\ savedCount = 0
  /\ clickTrace = <<>>
  /\ cells = <<>>

\* the trip list arriving while the user starts a draft and turns the months
NextNavigate ==
  \/ \E date \in FewDays : handleDateClick(date) /\ UNCHANGED clickTrace
  \/ cancelEdit
  \/ newTrip
  \/ prevMonth
  \/ nextMonth
  \/ goToToday
  \/ pollTick
  \/ \E i \in 1..MaxRequests : answerFetch(i)
  \/ \E i \in 1..MaxRequests : fetchTripsResume(i)

SpecNavigate == InitNavigate /\ [][NextNavigate]_vars

\* ------------------------------------------------------------ claims

Shown(msg, type) == [show |-> TRUE, msg |-> msg, type |-> type]

\* the fetchTrips call i resumes without an answer of the remote store: its
\* request failed
FailedFetch(i) == i <= Len(fetches) /\ fetches[i].resp = Pending /\ fetchTripsResume(i)

\* C1: a failed trip-list fetch (initial load, poll or post-delete refresh) leaves
\* the locally held trip list as it was
C1_FailedFetchKeepsTrips ==
  [][\A i \in 1..MaxRequests : FailedFetch(i) => trips' = trips]_vars

\* the verifying list of the running save lacks the id the save returned
VerifyLacksId ==
  /\ save.pc = "verifying"
  /\ save.newId # ""
  /\ \A resp \in Received(save.resp) :
       \A i \in 1..Len(resp.trips) : resp.trips[i].id # save.newId

\* C2: when the save returned an id and the verifying list lacks it, the
\* consistency error is shown, the draft keeps its start and end, the mode stays
\* and the trip list is not replaced
C2_UnverifiedSaveChangesNothing ==
  [][(VerifyLacksId /\ handleSaveVerified) =>
       /\ toastShown' = Shown(MsgNotPropagated, "error")
       /\ draftRange' = draftRange
       /\ isEditMode' = isEditMode
       /\ trips' = trips
       /\ ~tripsSet'
       /\ lastServerHash' = lastServerHash]_vars

C2_Witness ==
  /\ toastShown = Shown(MsgNotPropagated, "error")
  /\ draftRange = [startDate |-> 5, endDate |-> 10]
  /\ isEditMode
  /\ ~isSaving

\* a list has been applied to local state, by a fetch or by a save
Applied == lastServerHash # NoHash \/ trips # <<>>

\* the poll i resumes with a list whose fingerprint is that of the local list
SameFingerprintPoll(i) ==
  /\ i <= Len(fetches)
  /\ fetches[i].origin = "poll"
  /\ fetches[i].resp.kind = "ok"
  /\ Applied
  /\ Fingerprint(getAllTripsFromCloud(fetches[i].resp)) = Fingerprint(trips)
  /\ fetchTripsResume(i)

\* C3: a poll returning a list whose fingerprint equals that of the list last
\* applied (by a fetch or by a save) replaces nothing and shows no toast
C3_SameFingerprintIsNoOp ==
  [][\A i \in 1..MaxRequests :
       SameFingerprintPoll(i) => ~tripsSet' /\ toastShown' = NoToast]_vars

\* C4: a draft with both dates has its start not after its end
C4_StartNotAfterEnd ==
  (draftRange.startDate # Null /\ draftRange.endDate # Null)
    => draftRange.startDate <= draftRange.endDate

\* a complete draft made after an earlier draft was saved
C4_Witness ==
  /\ savedCount > 0
  /\ isEditMode
  /\ draftRange.startDate # Null
  /\ draftRange.endDate # Null
  /\ Len(trips) > 0

\* C5: from the EMPTY draft, clicking D1 and then a later D2 yields {D1, D2}
C5_TwoClicksMakeRange ==
  (Len(clickTrace) = 2 /\ clickTrace[1] < clickTrace[2])
    => draftRange = [startDate |-> clickTrace[1], endDate |-> clickTrace[2]]

C5_Witness == clickTrace = <<5, 35>> /\ draftRange = [startDate |-> 5, endDate |-> 35]

\* C6: from the EMPTY draft, clicking the same date twice returns to EMPTY
C6_SameDateTwiceCancels ==
  (Len(clickTrace) = 2 /\ clickTrace[1] = clickTrace[2])
    => draftRange = [startDate |-> Null, endDate |-> Null]

C6_Witness == clickTrace = <<10, 10>> /\ isEditMode

\* C7: from a COMPLETE draft, clicking any date D yields {D, absent}
C7_ClickOnCompleteRestarts ==
  [][\A d \in ClickDays :
       (isEditMode /\ draftRange.startDate # Null /\ draftRange.endDate # Null
        /\ handleDateClick(d))
       => draftRange' = [startDate |-> d, endDate |-> Null]]_vars

\* the range 06-05..06-20 was completed and 06-10, a date inside it, clicked
C7_Witness == clickTrace = <<5, 20, 10>> /\ draftRange = [startDate |-> 10, endDate |-> Null]

\* C8: from a PARTIAL draft {S}, clicking D before S yields {D, absent} and
\* clicking D after S yields {S, D}; EMPTY, 06-10, 06-05, 06-20 ends in
\* {06-05, 06-20}
C8_PartialClick ==
  /\ [][\A d \in ClickDays :
          (isEditMode /\ draftRange.startDate # Null /\ draftRange.endDate = Null
           /\ d # draftRange.startDate /\ handleDateClick(d))
          => draftRange' = IF d < draftRange.startDate
                           THEN [startDate |-> d, endDate |-> Null]
                           ELSE [startDate |-> draftRange.startDate, endDate |-> d]]_vars
  /\ [](clickTrace = <<10, 5, 20>> => draftRange = [startDate |-> 5, endDate |-> 20])

C8_Witness == clickTrace = <<10, 5, 20>>

\* C9: a save request is sent only from a COMPLETE draft, and carries its dates;
\* from EMPTY or PARTIAL the save action cannot act
C9_SaveOnlyWhenComplete ==
  /\ [][(save.pc = "idle" /\ save'.pc # "idle") =>
          /\ draftRange.startDate # Null
          /\ draftRange.endDate # Null
          /\ save'.startDate = FormatDate(draftRange.startDate)
          /\ save'.endDate = FormatDate(draftRange.endDate)]_vars
  /\ []((draftRange.startDate = Null \/ draftRange.endDate = Null) => ~ENABLED handleSave)

\* a save request is in flight
C9_Witness ==
  /\ save.pc = "saving"
  /\ save.startDate = FormatDate(5)
  /\ save.endDate = FormatDate(10)

\* C10: with the endpoint configured, one poll timer is live in view mode and none
\* in edit mode or after teardown; no poll fetch is issued in edit mode
C10_OneTimerInViewMode ==
  /\ [](API_URL # "" => pollTimers = IF mounted /\ ~isEditMode THEN 1 ELSE 0)
  /\ [][(Len(fetches') > Len(fetches) /\ fetches'[Len(fetches')].origin = "poll")
          => ~isEditMode]_vars

\* edit mode entered again after a save had returned the app to view mode
C10_Witness == isEditMode /\ pollTimers = 0 /\ Len(trips) > 0 /\ savedCount > 0

\* the background fetch i (poll or post-delete refresh) resumes with the answer of
\* the remote store while the app is in edit mode
BackgroundFetchInEdit(i) ==
  /\ isEditMode
  /\ i <= Len(fetches)
  /\ fetches[i].origin \in {"poll", "refresh"}
  /\ fetches[i].resp.kind = "ok"
  /\ fetchTripsResume(i)

\* C11: in edit mode no poll and no post-delete refresh replaces the trip list or
\* shows a toast, also when its request was issued before edit mode was entered
C11_NoSyncInEditMode ==
  [][\A i \in 1..MaxRequests :
       BackgroundFetchInEdit(i) => trips' = trips /\ toastShown' = NoToast]_vars

\* C12: a failed initial (non-silent) fetch shows an error toast, a failed silent
\* fetch shows none
C12_ForegroundFailureSurfaced ==
  [][\A i \in 1..MaxRequests :
       FailedFetch(i) =>
         IF fetches[i].silent
         THEN ~(toastShown'.show /\ toastShown'.type = "error")
         ELSE toastShown'.show /\ toastShown'.type = "error"]_vars

\* C13: in view mode the draft has neither start nor end (cancel clears it)
C13_ViewModeDraftEmpty ==
  ~isEditMode => (draftRange.startDate = Null /\ draftRange.endDate = Null)

\* the rendered cells that are a boundary of the draft and strictly inside the
\* trip that owns them
BoundaryInsideTrip(c) ==
  /\ (c.date = draftRange.startDate \/ c.date = draftRange.endDate)
  /\ \E i \in 1..Len(trips) : trips[i].startDate < c.date /\ c.date < trips[i].endDate

\* C14: a rendered date that is a draft boundary and lies strictly inside a
\* persisted trip reports its boundary flag and not the interior flag
C14_BoundaryNotInterior ==
  \A k \in 1..Len(cells) :
    BoundaryInsideTrip(cells[k]) =>
      /\ (cells[k].date = draftRange.startDate => cells[k].isStart)
      /\ (cells[k].date = draftRange.endDate => cells[k].isEnd)
      /\ ~cells[k].isRange

\* C15: the rendered grid is a run of consecutive dates in ascending order, its
\* length a multiple of 7, from a weekday 0 to a weekday 6, holding every date of
\* the displayed month
C15_GridIsWholeWeeks ==
  Len(cells) > 0 =>
    /\ \A k \in 1..(Len(cells) - 1) : cells[k + 1].date = cells[k].date + 1
    /\ Len(cells) % 7 = 0
    /\ (cells[1].date - 1) % 7 = 0
    /\ (cells[Len(cells)].date - 1) % 7 = 6
    /\ \A d \in (DaysBefore(currentMonth) + 1)..DaysBefore(currentMonth + 1) :
         \E k \in 1..Len(cells) : cells[k].date = d

\* the six-row grid of 2025-08 (07-27 .. 09-06) has been rendered
C15_Witness ==
  /\ currentMonth = 8
  /\ Len(cells) = 42
  /\ cells[1].date = 57
  /\ cells[42].date = 98

\* transport-level failures and application-level errors
TransportFailures == {f \in Failures : f.kind \in {"transport", "unparsable"}}

ApplicationErrors == {f \in Failures : f.kind = "apperror"}

\* C16: for the list, the save and the delete request, a transport-level failure
\* and an application-level error have different outcomes: no step is the outcome
\* of both
C16_FailureKindsDistinguished ==
  [][\A t \in TransportFailures : \A a \in ApplicationErrors :
       /\ ~(save.pc = "saving" /\ handleSaveResumeWith(t) /\ handleSaveResumeWith(a))
       /\ ~(del.pc = "deleting" /\ handleDeleteResumeWith(t) /\ handleDeleteResumeWith(a))
       /\ \A i \in 1..MaxRequests :
            ~(i <= Len(fetches) /\ fetchTripsResumeWith(i, t) /\ fetchTripsResumeWith(i, a))]_vars

\* the remote trip list as getAllTripsFromCloud delivers it
RemoteTrips == [i \in 1..Len(remote) |-> wireToTrip(remote[i])]

\* C17: if from some point on the app stays mounted in view mode, the remote list
\* stops changing and no fetch fails, then the local list eventually equals the
\* remote list and stays equal to it
C17_EventuallyConsistent ==
  (/\ <>[](mounted /\ ~isEditMode)
   /\ <>[][remote' = remote]_vars
   /\ <>[][\A i \in 1..MaxRequests : ~FailedFetch(i)]_vars)
  => <>[](trips = RemoteTrips)

\* C18: entering edit mode gives the EMPTY draft whatever the draft was, and the
\* reset action gives the EMPTY draft and leaves the mode and the trip list alone
C18_EnterAndResetGiveEmptyDraft ==
  [][/\ (~isEditMode /\ isEditMode') => draftRange' = [startDate |-> Null, endDate |-> Null]
     /\ newTrip => (isEditMode' /\ draftRange' = [startDate |-> Null, endDate |-> Null])
     /\ handleResetDraft =>
          /\ draftRange' = [startDate |-> Null, endDate |-> Null]
          /\ isEditMode' = isEditMode
          /\ trips' = trips
          /\ ~tripsSet']_vars

\* the draft is EMPTY in edit mode while the save of a COMPLETE draft is running:
\* the draft has been reset, or edit mode left and entered again, since
C18_Witness ==
  /\ isEditMode
  /\ draftRange = [startDate |-> Null, endDate |-> Null]
  /\ save.pc = "saving"
  /\ isSaving

\* the verifying list of the running save holds the id the save returned
VerifyHasId ==
  /\ save.pc = "verifying"
  /\ save.resp.kind = "ok"
  /\ \E i \in 1..Len(save.resp.trips) : save.resp.trips[i].id = save.newId

\* C19: a verified save replaces the trip list by the re-fetched list, which holds
\* the new id, empties the draft, leaves edit mode and clears the saving flag; the
\* saving flag is cleared whenever a save ends
C19_VerifiedSaveCompletes ==
  [][/\ (VerifyHasId /\ handleSaveVerified) =>
          /\ tripsSet'
          /\ trips' = getAllTripsFromCloud(save.resp)
          /\ \E i \in 1..Len(trips') : trips'[i].id = save.newId
          /\ draftRange' = [startDate |-> Null, endDate |-> Null]
          /\ ~isEditMode'
          /\ ~isSaving'
     /\ (save.pc # "idle" /\ save'.pc = "idle") => ~isSaving']_vars

C19_Witness ==
  /\ toastShown = Shown(MsgSaved, "success")
  /\ \E i \in 1..Len(trips) : trips[i].id = NewId(1)
  /\ draftRange = [startDate |-> Null, endDate |-> Null]
  /\ ~isEditMode
  /\ ~isSaving
  /\ save.pc = "idle"

\* the rendered draft start is the only date that reports isStart
OnlyDraftStartIsStart ==
  draftRange.startDate # Null =>
    \A k \in 1..Len(cells) : cells[k].isStart <=> cells[k].date = draftRange.startDate

\* C20 as stated: with a draft start, isStart is reported by the draft start alone;
\* with a draft start and no draft end, the end date of every persisted trip
\* reports isEnd
C20_PerBoundarySuppression ==
  /\ OnlyDraftStartIsStart
  /\ (draftRange.startDate # Null /\ draftRange.endDate = Null) =>
       \A i \in 1..Len(trips) : \A k \in 1..Len(cells) :
         cells[k].date = trips[i].endDate => cells[k].isEnd

\* no date lies in two persisted trips
NoOverlap ==
  \A i, j \in 1..Len(trips) :
    i # j => (trips[i].endDate < trips[j].startDate \/ trips[j].endDate < trips[i].startDate)

\* C20, amended: the same, for persisted trips that do not overlap
C20_PerBoundarySuppressionNoOverlap ==
  /\ OnlyDraftStartIsStart
  /\ (draftRange.startDate # Null /\ draftRange.endDate = Null /\ NoOverlap) =>
       \A i \in 1..Len(trips) : \A k \in 1..Len(cells) :
         cells[k].date = trips[i].endDate => cells[k].isEnd

\* 2025-06 rendered with the trip 06-05..06-20 and the draft start 06-10: 06-05
\* does not report isStart, 06-20 reports isEnd
C20_Witness ==
  /\ currentMonth = 6
  /\ draftRange = [startDate |-> 10, endDate |-> Null]
  /\ Len(trips) = 1
  /\ trips[1].startDate = 5
  /\ trips[1].endDate = 20
  /\ Len(cells) = 35
  /\ ~cells[5].isStart
  /\ cells[10].isStart
  /\ cells[20].isEnd

\* the auto-navigation effect runs in a step: one of its dependencies changed
EffectRuns == draftRange'.startDate # draftRange.startDate \/ Len(trips') # Len(trips)

\* the start month of the trip starting earliest after now or, none starting
\* after now, of the last trip of the list
NearestUpcomingMonth(list, now) ==
  LET upcoming == {i \in 1..Len(list) : list[i].startDate > now}
      nearest == CHOOSE i \in upcoming :
                   \A j \in upcoming : list[i].startDate <= list[j].startDate
  IN  IF upcoming = {} THEN MonthOf(list[Len(list)].startDate)
      ELSE MonthOf(list[nearest].startDate)

\* C21: whenever auto-navigation runs with no draft start and a non-empty trip
\* list, the displayed month becomes the start month of the trip that starts
\* earliest after the current time or, if none starts after it, of the last trip
\* of the list
C21_NavigatesToNearestUpcoming ==
  [][(EffectRuns /\ draftRange'.startDate = Null /\ trips' # <<>>)
       => currentMonth' = NearestUpcomingMonth(trips', today)]_vars

\* a step of one of the month buttons of the calendar
ManualNavigation == prevMonth \/ nextMonth \/ goToToday

\* C22: every click that sets the draft start to a date D is followed by the
\* displayed month being the month of D, and while the draft start stays the
\* same only the month buttons change the displayed month: no other event (a
\* trip-list update arriving, say) undoes a manual navigation
C22_ManualNavigationKept ==
  [][/\ \A d \in FewDays :
          (isEditMode /\ handleDateClick(d) /\ draftRange'.startDate = d)
            => currentMonth' = MonthOf(d)
     /\ (/\ draftRange.startDate # Null
         /\ draftRange'.startDate = draftRange.startDate
         /\ ~ManualNavigation)
          => currentMonth' = currentMonth]_vars

\* C23: a day click in view mode leaves the draft unchanged, a day outside the
\* displayed month cannot be clicked, and so every date that becomes the start or
\* the end of the draft is a date of the month displayed when it was clicked
C23_ClicksStayInDisplayedMonth ==
  [][/\ \A d \in ClickDays :
          handleDateClick(d) =>
            /\ MonthOf(d) = currentMonth
            /\ (~isEditMode => draftRange' = draftRange)
     /\ (draftRange'.startDate \notin {Null, draftRange.startDate}
           => MonthOf(draftRange'.startDate) = currentMonth)
     /\ (draftRange'.endDate \notin {Null, draftRange.endDate}
           => MonthOf(draftRange'.endDate) = currentMonth)]_vars

\* a draft across two months, its end clicked with the later month displayed
C23_Witness ==
  /\ isEditMode
  /\ draftRange = [startDate |-> 5, endDate |-> 35]
  /\ clickTrace = <<5, 35>>
  /\ currentMonth = 7

\* C24: at most one save is in flight: isSaving is set exactly while a save call
\* is running, the save button cannot be pressed during that time whatever the
\* user does to the mode and the draft, and a save request is only ever sent by
\* a press of the button with no save running
C24_OneSaveInFlight ==
  /\ []((save.pc # "idle") <=> isSaving)
  /\ [](save.pc # "idle" => ~CanSave)
  /\ [][((save'.pc = "saving" /\ save.pc # "saving") \/ savedCount' # savedCount)
          => (handleSave /\ save.pc = "idle" /\ ~isSaving)]_vars

\* a save is awaiting its answer while the user, in edit mode, holds a complete
\* draft: the state in which a second press would send a second request
C24_Witness ==
  /\ save.pc = "saving"
  /\ isEditMode
  /\ IsComplete(draftRange)

\* the draft is the range the running save posted
DraftIsSavedRange ==
  /\ draftRange.startDate # Null
  /\ draftRange.endDate # Null
  /\ FormatDate(draftRange.startDate) = save.startDate
  /\ FormatDate(draftRange.endDate) = save.endDate

\* C25: a successful save completion only clears the draft it saved and only
\* ends the edit session that triggered it: when it completes, the app is still
\* in edit mode and the draft is still the range that was posted
C25_CompletionClearsOnlyItsDraft ==
  [][(handleSaveVerified /\ toastShown' = Shown(MsgSaved, "success"))
       => (isEditMode /\ DraftIsSavedRange)]_vars

\* C26: fetch responses are applied in the order their requests were issued: a
\* fetch is never applied to the trip list after a fetch issued later than it
\* has been applied
C26_FetchesAppliedInIssueOrder ==
  [][\A i \in 1..Len(fetches) :
       (fetchTripsResume(i) /\ tripsSet') => ~fetches[i].overtaken]_vars

Ids(list) == {list[i].id : i \in 1..Len(list)}

\* the ids the remote store gives to the trips saved
TripIds == {NewId(n) : n \in 1..MaxSaves}

\* handleDelete's continuation runs in the step
DeleteReturns == mounted' /\ del.pc = "deleting" /\ del'.pc = "idle"

\* the delete of trip id has succeeded and the refresh issued after it has been
\* answered by the store, without the trip, while the local list still holds it
RefreshSucceeded(id) ==
  /\ id \in Ids(trips)
  /\ id \notin Ids(RemoteTrips)
  /\ \E i \in 1..Len(fetches) :
       /\ fetches[i].origin = "refresh"
       /\ fetches[i].resp.kind = "ok"
       /\ id \notin Ids(fetches[i].resp.trips)

\* the steps of a delete: success issues a refresh, failure shows the error toast,
\* issues nothing and keeps the list; both clear the deleting flag, which is set
\* exactly while the one delete is running
C27_DeleteSteps ==
  /\ [](mounted => ((del.pc # "idle") <=> (isDeleting # NoId)))
  /\ [][/\ (\E id \in TripIds : handleDelete(id)) => del.pc = "idle"
        /\ DeleteReturns =>
             /\ isDeleting' = NoId
             /\ trips' = trips
             /\ del.resp.kind = "ok" =>
                  /\ toastShown' = Shown(MsgDeleted, "info")
                  /\ fetches' = Append(fetches, FetchCall(TRUE, "refresh"))
             /\ del.resp.kind # "ok" =>
                  /\ toastShown' = Shown(MsgDeleteFailed, "error")
                  /\ fetches' = fetches]_vars

\* C27: after a successful delete of trip T a refresh is issued and, if it
\* succeeds, the local list eventually no longer contains T; a failed delete
\* shows an error toast, issues no refresh and leaves the list unchanged; in both
\* cases the deleting flag ends cleared and at most one delete is in flight
C27_DeleteThenRefresh ==
  /\ C27_DeleteSteps
  /\ []mounted => ((isDeleting # NoId) ~> (isDeleting = NoId))
  /\ (/\ <>[](mounted /\ ~isEditMode)
      /\ <>[][\A i \in 1..MaxRequests : ~FailedFetch(i)]_vars)
     => \A id \in TripIds : RefreshSucceeded(id) ~> (id \notin Ids(trips))

====
